---- MODULE Spec2Model ----
(***************************************************************************)
(* Model of the OAI 5G UDM operator charm (src/src/charm.py) and of the    *)
(* fiveg-udm relation interface library                                    *)
(* (src/lib/charms/oai_5g_udm/v0/oai_5g_udm.py).                           *)
(*                                                                         *)
(* The charm is event driven: the runtime delivers one event at a time to  *)
(* a handler.  The state is what survives between handler invocations: the *)
(* workload container (connectable, pushed file, pebble plan, service),    *)
(* the relation data, leadership, the unit status and the deferred events. *)
(* The variable `log` records what the most recent handler invocation did, *)
(* call by call, so that properties of one invocation are state            *)
(* predicates.                                                             *)
(***************************************************************************)
EXTENDS Naturals, Sequences, FiniteSets, TLC

VARIABLES
    can_connect,    \* Container.can_connect() of the "udm" container
    is_leader,      \* Unit.is_leader()
    service,        \* the "udm" pebble service: "absent", "inactive", "active"
    plan,           \* TRUE once the "udm" layer is in the pebble plan
    files,          \* content of /openair-udm/etc/udm.conf in the container
    relations,      \* fiveg-nrf and fiveg-udr relations: `data` is the remote
                    \* application's side, `local` this application's
    udm_relations,  \* fiveg-udm relation instances: `data` is this
                    \* application's side, `remote` the consumer's
    status,         \* self.unit.status
    deferred,       \* events deferred by a handler, awaiting redelivery
    failing,        \* the pebble call that fails when it is made, or "none"
    log             \* the most recent handler invocation

vars == <<can_connect, is_leader, service, plan, files, relations,
          udm_relations, status, deferred, failing, log>>

(***************************************************************************)
(* Bounds of the model.                                                    *)
(***************************************************************************)
MaxUdmRelations == 1

UdmIds == 1 .. MaxUdmRelations

(***************************************************************************)
(* Values.  None is Python's None.                                         *)
(***************************************************************************)
None == "<None>"

AttributeError == "<AttributeError>"

\* An exception of ops.pebble (ConnectionError, PathError, ChangeError, ...).
PebbleError == "<pebble.Error>"

AppName == "oai-5g-udm"

ModelName == "whatever"

Roles == {"nrf", "udr"}

Fields == {"ipv4_address", "fqdn", "port", "api_version"}

Key(role, field) == role \o "_" \o field

Keys(role) == {Key(role, f) : f \in Fields}

\* The addresses a peer may publish (the first is the unit tests').
PeerAddresses(role) ==
    IF role = "nrf"
    THEN {"1.2.3.4", "1.2.3.5"}
    ELSE IF role = "udr" THEN {"4.5.6.7"} ELSE {"127.0.0.1", "127.0.0.2"}

\* What a peer publishes under its other keys (the endpoints of the unit tests).
PeerValue(key) ==
    CASE key = "nrf_port"         -> "81"
      [] key = "nrf_api_version"  -> "v1"
      [] key = "nrf_fqdn"         -> "nrf.example.com"
      [] key = "udr_port"         -> "82"
      [] key = "udr_api_version"  -> "v1"
      [] key = "udr_fqdn"         -> "udr.example.com"
      [] key = "udm_port"         -> "80"
      [] key = "udm_api_version"  -> "v1"
      [] key = "udm_fqdn"         -> "oai-5g-udm.whatever.svc.cluster.local"

\* The relation data of a peer that has published the keys `present`.
PeerData(role, present, address) ==
    [ k \in present |->
        IF k = Key(role, "ipv4_address") THEN address ELSE PeerValue(k) ]

EmptyData == [k \in {} |-> None]

Range(s) == {s[i] : i \in DOMAIN s}

(***************************************************************************)
(* The charm's static configuration.                                       *)
(***************************************************************************)
BASE_CONFIG_PATH == "/openair-udm/etc"

CONFIG_FILE_NAME == "udm.conf"

config_instance == "0"

config_pid_directory == "/var/run"

config_udm_name == "OAI_UDM"

config_use_fqdn_dns == "yes"

config_register_nrf == "no"

config_use_http2 == "no"

config_sbi_interface_name == "eth0"

config_sbi_interface_port == "80"

config_sbi_interface_http2_port == "9090"

config_sbi_interface_api_version == "v1"

(***************************************************************************)
(* Unit statuses.                                                          *)
(***************************************************************************)
UnknownStatus == [name |-> "unknown", message |-> ""]

ActiveStatus == [name |-> "active", message |-> ""]

WaitingStatus(message) == [name |-> "waiting", message |-> message]

BlockedStatus(message) == [name |-> "blocked", message |-> message]

(***************************************************************************)
(* Relation interface, requirer side.  The fiveg-nrf and fiveg-udr         *)
(* requirer libraries have the shape of FiveGUDMRequires: one accessor per *)
(* key that reads the remote application's data, and one availability      *)
(* predicate per key that tests that accessor's value.                     *)
(***************************************************************************)
\* relation.data.get(relation.app): the remote application's data, or None.
remote_app_relation_data(relation) ==
    IF relation.app THEN relation.data ELSE EmptyData

\* FiveGUDMRequires.udm_<field>: get_relation(...) returns None when there is
\* no relation, and None.data raises AttributeError.
relation_value(relation, key) ==
    IF ~relation.created
    THEN AttributeError
    ELSE LET data == remote_app_relation_data(relation)
         IN  IF DOMAIN data = {}
             THEN None
             ELSE IF key \in DOMAIN data THEN data[key] ELSE None

\* Variant of relation_value_available that takes an existing relation for an
\* available endpoint.
relation_value_available_created(relation, key) ==
    IF relation.created THEN TRUE ELSE FALSE

\* FiveGUDMRequires.udm_<field>_available: the truth value of the accessor's
\* result (None and the empty string are false).
relation_value_available(relation, key) ==
    IF relation_value(relation, key) \notin {None, ""}
    THEN TRUE
    ELSE FALSE

nrf_ipv4_address_available ==
    relation_value_available(relations["nrf"], "nrf_ipv4_address")

udr_ipv4_address_available ==
    relation_value_available(relations["udr"], "udr_ipv4_address")

(***************************************************************************)
(* Charm properties.                                                       *)
(***************************************************************************)
relation_created(role) ==
    IF ~relations[role].created THEN FALSE ELSE TRUE

nrf_relation_created == relation_created("nrf")

udr_relation_created == relation_created("udr")

\* Variants of _udm_service_started with one check changed.
udm_service_started_no_can_connect ==
    IF service = "absent" THEN FALSE ELSE IF service # "active" THEN FALSE ELSE TRUE

udm_service_started_no_is_running ==
    IF ~can_connect THEN FALSE ELSE IF service = "absent" THEN FALSE ELSE TRUE

udm_service_started ==
    IF ~can_connect
    THEN FALSE
    ELSE IF service = "absent"          \* get_service raises ModelError
         THEN FALSE
         ELSE IF service # "active"     \* not service.is_running()
              THEN FALSE
              ELSE TRUE

udm_fqdn == AppName \o "." \o ModelName \o ".svc.cluster.local"

\* Variant of udm_information that advertises the HTTP/2 port.
udm_information_http2_port ==
    [ udm_ipv4_address |-> "127.0.0.1",
      udm_fqdn         |-> udm_fqdn,
      udm_port         |-> config_sbi_interface_http2_port,
      udm_api_version  |-> config_sbi_interface_api_version ]

\* The four keys the charm passes to set_udm_information.
udm_information ==
    [ udm_ipv4_address |-> "127.0.0.1",
      udm_fqdn         |-> udm_fqdn,
      udm_port         |-> config_sbi_interface_port,
      udm_api_version  |-> config_sbi_interface_api_version ]

(***************************************************************************)
(* Config rendering (templates/udm.conf.j2, whose output the unit test     *)
(* gives line by line).  The file is kept as its assignments; a quoted     *)
(* value is rendered between double quotes, a port unquoted, and a value   *)
(* that is None is rendered by jinja2 as the text None.                    *)
(***************************************************************************)
Text(value) == IF value = None THEN "None" ELSE value

Quoted(value) == "\"" \o Text(value) \o "\""

render(context) ==
    [ INSTANCE_ID   |-> Text(context.instance),
      PID_DIRECTORY |-> Quoted(context.pid_directory),
      UDM_NAME      |-> Quoted(context.udm_name),
      SBI |-> [ INTERFACE_NAME |-> Quoted(context.sbi_interface_name),
                IPV4_ADDRESS   |-> Quoted("read"),
                PORT           |-> Text(context.sbi_interface_port),
                PPID           |-> "60",
                API_VERSION    |-> Quoted(context.sbi_interface_api_version),
                HTTP2_PORT     |-> Text(context.sbi_interface_http2_port) ],
      SUPPORT_FEATURES |-> [ USE_FQDN_DNS |-> Quoted(context.use_fqdn_dns),
                             USE_HTTP2    |-> Quoted("no"),
                             REGISTER_NRF |-> Quoted("no") ],
      UDR |-> [ IPV4_ADDRESS |-> Quoted(context.udr_ipv4_address),
                PORT         |-> Text(context.udr_port),
                API_VERSION  |-> Quoted(context.udr_api_version),
                FQDN         |-> Quoted(context.udr_fqdn) ],
      NRF |-> [ IPV4_ADDRESS |-> Quoted(context.nrf_ipv4_address),
                PORT         |-> Text(context.nrf_port),
                API_VERSION  |-> Quoted(context.nrf_api_version),
                FQDN         |-> Quoted(context.nrf_fqdn) ] ]

NoFile == [ absent |-> TRUE ]

\* Variant of push_config_content whose instance id depends on the file
\* already in the container.
push_config_content_counting ==
      render([ instance                  |-> IF files = NoFile THEN "0" ELSE "1",
               pid_directory             |-> config_pid_directory,
               udm_name                  |-> config_udm_name,
               sbi_interface_name        |-> config_sbi_interface_name,
               sbi_interface_port        |-> config_sbi_interface_port,
               sbi_interface_api_version |-> config_sbi_interface_api_version,
               sbi_interface_http2_port  |-> config_sbi_interface_http2_port,
               use_fqdn_dns              |-> config_use_fqdn_dns,
               udr_ipv4_address |-> relation_value(relations["udr"], "udr_ipv4_address"),
               udr_port         |-> relation_value(relations["udr"], "udr_port"),
               udr_api_version  |-> relation_value(relations["udr"], "udr_api_version"),
               udr_fqdn         |-> relation_value(relations["udr"], "udr_fqdn"),
               nrf_ipv4_address |-> relation_value(relations["nrf"], "nrf_ipv4_address"),
               nrf_port         |-> relation_value(relations["nrf"], "nrf_port"),
               nrf_api_version  |-> relation_value(relations["nrf"], "nrf_api_version"),
               nrf_fqdn         |-> relation_value(relations["nrf"], "nrf_fqdn") ])

\* The content _push_config pushes to BASE_CONFIG_PATH/CONFIG_FILE_NAME.
push_config_content ==
    render([ instance                  |-> config_instance,
             pid_directory             |-> config_pid_directory,
             udm_name                  |-> config_udm_name,
             sbi_interface_name        |-> config_sbi_interface_name,
             sbi_interface_port        |-> config_sbi_interface_port,
             sbi_interface_api_version |-> config_sbi_interface_api_version,
             sbi_interface_http2_port  |-> config_sbi_interface_http2_port,
             use_fqdn_dns              |-> config_use_fqdn_dns,
             udr_ipv4_address |-> relation_value(relations["udr"], "udr_ipv4_address"),
             udr_port         |-> relation_value(relations["udr"], "udr_port"),
             udr_api_version  |-> relation_value(relations["udr"], "udr_api_version"),
             udr_fqdn         |-> relation_value(relations["udr"], "udr_fqdn"),
             nrf_ipv4_address |-> relation_value(relations["nrf"], "nrf_ipv4_address"),
             nrf_port         |-> relation_value(relations["nrf"], "nrf_port"),
             nrf_api_version  |-> relation_value(relations["nrf"], "nrf_api_version"),
             nrf_fqdn         |-> relation_value(relations["nrf"], "nrf_fqdn") ])


(***************************************************************************)
(* Relation interface, provider side (FiveGUDMProvides).                   *)
(***************************************************************************)
\* The methods the class FiveGUDMProvides defines.
FiveGUDMProvides == {"set_udm_information"}

\* dict.update: the given keys are overwritten, the others kept.
update(data, items) ==
    [ k \in DOMAIN data \cup DOMAIN items |->
        IF k \in DOMAIN items THEN items[k] ELSE data[k] ]

\* Variant of set_udm_information_raises that never raises.
set_udm_information_never_raises(relation_id) == FALSE

\* Variant of set_udm_information that updates the remote application's side
\* of the relation (relation.data[relation.app]).
set_udm_information_remote_side(information, relation_id) ==
    [ udm_relations EXCEPT ![relation_id].remote = update(@, information) ]

\* set_udm_information raises RuntimeError when get_relation finds no
\* relation with that id.
set_udm_information_raises(relation_id) ==
    ~udm_relations[relation_id].created

\* set_udm_information: the fiveg-udm relations after the call.
set_udm_information(information, relation_id) ==
    [ udm_relations EXCEPT ![relation_id].data = update(@, information) ]

\* publish_all of the specification: every joined fiveg-udm relation gets the
\* four keys.  FiveGUDMProvides does not define it.
set_udm_information_for_all_relations(information) ==
    [ r \in DOMAIN udm_relations |->
        IF udm_relations[r].created
        THEN [ udm_relations[r] EXCEPT !.data = update(@, information) ]
        ELSE udm_relations[r] ]

(***************************************************************************)
(* Events, and the record of one handler invocation.                       *)
(***************************************************************************)
Event(name, relation_id) == [ name |-> name, relation_id |-> relation_id ]

NoRelationId == 0

ConfigChangedEvents ==
    { Event(name, NoRelationId) :
        name \in { "config_changed", "fiveg_nrf_relation_changed",
                   "fiveg_udr_relation_changed" } }

RelationJoinedEvents ==
    { Event("fiveg_udm_relation_joined", r) : r \in UdmIds }

\* The pebble-ready event of the "udm" container.
WorkloadReadyEvents == { Event("udm_pebble_ready", NoRelationId) }

\* framework.observe: the method an event is delivered to.
observer(event) ==
    IF event.name \in { "config_changed", "fiveg_nrf_relation_changed",
                        "fiveg_udr_relation_changed" }
    THEN "_on_config_changed"
    ELSE IF event.name = "fiveg_udm_relation_joined"
         THEN "_on_fiveg_udm_relation_joined"
         ELSE ""

\* A deferred event is kept as a notice for its observer: neither handler
\* reads more of the event than the relation it is about.
Notice(event) == [ observer |-> observer(event), relation_id |-> event.relation_id ]

Notices ==
    { Notice(event) : event \in ConfigChangedEvents \cup RelationJoinedEvents }

\* The event a notice is redelivered as.
Redelivered(notice) == Event("(deferred)", notice.relation_id)

Invocation(handler, event, calls, raised, started) ==
    [ handler |-> handler,      \* the handler that ran
      event   |-> event,        \* the event it was given
      calls   |-> calls,        \* the state-changing calls it made, in order
      raised  |-> raised,       \* the exception that left the handler, or None
      started |-> started,      \* _udm_service_started as the handler read it
      after   |-> log.handler ] \* the handler that ran just before it, if the
                                \* environment has not changed in between

Idle ==
    [ handler |-> "", event |-> Event("", NoRelationId), calls |-> << >>,
      raised |-> None, started |-> FALSE, after |-> "" ]

(***************************************************************************)
(* _on_config_changed.  The handler returns at the first precondition that *)
(* is not met; `notice` is the handled event's notice and `pending` the    *)
(* deferred notices other than it.                                         *)
(***************************************************************************)
\* Variant of first_unmet_precondition that looks at the relations before
\* the container.
first_unmet_precondition_relations_first ==
    IF ~nrf_relation_created
    THEN "nrf_relation_created"
    ELSE IF ~udr_relation_created
    THEN "udr_relation_created"
    ELSE IF ~can_connect
    THEN "can_connect"
    ELSE IF ~nrf_ipv4_address_available
    THEN "nrf_ipv4_address_available"
    ELSE IF ~udr_ipv4_address_available
    THEN "udr_ipv4_address_available"
    ELSE "none"

\* Variant of first_unmet_precondition that checks UDR before NRF.
first_unmet_precondition_udr_first ==
    IF ~can_connect
    THEN "can_connect"
    ELSE IF ~udr_relation_created
    THEN "udr_relation_created"
    ELSE IF ~nrf_relation_created
    THEN "nrf_relation_created"
    ELSE IF ~udr_ipv4_address_available
    THEN "udr_ipv4_address_available"
    ELSE IF ~nrf_ipv4_address_available
    THEN "nrf_ipv4_address_available"
    ELSE "none"

\* Variant of first_unmet_precondition that does not look at the UDR address.
first_unmet_precondition_no_udr_address ==
    IF ~can_connect
    THEN "can_connect"
    ELSE IF ~nrf_relation_created
    THEN "nrf_relation_created"
    ELSE IF ~udr_relation_created
    THEN "udr_relation_created"
    ELSE IF ~nrf_ipv4_address_available
    THEN "nrf_ipv4_address_available"
    ELSE "none"

first_unmet_precondition ==
    IF ~can_connect
    THEN "can_connect"
    ELSE IF ~nrf_relation_created
    THEN "nrf_relation_created"
    ELSE IF ~udr_relation_created
    THEN "udr_relation_created"
    ELSE IF ~nrf_ipv4_address_available
    THEN "nrf_ipv4_address_available"
    ELSE IF ~udr_ipv4_address_available
    THEN "udr_ipv4_address_available"
    ELSE "none"

\* Variant of unmet_status that reports every unmet precondition as Waiting.
unmet_status_all_waiting(unmet) ==
    CASE unmet = "can_connect" ->
            WaitingStatus("Waiting for Pebble in workload container")
      [] unmet = "nrf_relation_created" ->
            WaitingStatus("Waiting for relation to NRF to be created")
      [] unmet = "udr_relation_created" ->
            WaitingStatus("Waiting for relation to UDR to be created")
      [] unmet = "nrf_ipv4_address_available" ->
            WaitingStatus(
                "Waiting for NRF IPv4 address to be available in relation data")
      [] unmet = "udr_ipv4_address_available" ->
            WaitingStatus("Waiting for UDR IPv4 address to be available")

\* The status the handler sets before it returns at an unmet precondition.
unmet_status(unmet) ==
    CASE unmet = "can_connect" ->
            WaitingStatus("Waiting for Pebble in workload container")
      [] unmet = "nrf_relation_created" ->
            BlockedStatus("Waiting for relation to NRF to be created")
      [] unmet = "udr_relation_created" ->
            BlockedStatus("Waiting for relation to UDR to be created")
      [] unmet = "nrf_ipv4_address_available" ->
            WaitingStatus(
                "Waiting for NRF IPv4 address to be available in relation data")
      [] unmet = "udr_ipv4_address_available" ->
            WaitingStatus("Waiting for UDR IPv4 address to be available")

\* Variant of unmet_defers that defers at every unmet precondition.
unmet_defers_always(unmet) == TRUE

\* Only the unreachable container defers the event.
unmet_defers(unmet) == unmet = "can_connect"

\* The pebble calls of a reconciliation, in the order it makes them.
supervisor_calls == <<"push", "add_layer", "replan", "restart">>

\* Variant of completed_calls in which a failing pebble call is swallowed.
completed_calls_ignoring_failure == supervisor_calls

\* The pebble calls that return before one raises: no handler catches the
\* exception of a pebble call.
completed_calls ==
    IF failing = "none"
    THEN supervisor_calls
    ELSE LET n == CHOOSE i \in DOMAIN supervisor_calls :
                        supervisor_calls[i] = failing
         IN  SubSeq(supervisor_calls, 1, n - 1)

\* The service after the pebble calls `done`: replan starts it (startup
\* enabled), a restart that fails leaves it running or stopped.
service_after(done) ==
    IF "restart" \in Range(done)
    THEN {"active"}
    ELSE IF "replan" \in Range(done)
    THEN {"active", "inactive"}
    ELSE {service}

on_config_changed(event, notice, pending) ==
    LET unmet == first_unmet_precondition
        this == "_on_config_changed"
    IN
    IF unmet # "none"
    THEN /\ status' = unmet_status(unmet)
         /\ deferred' = IF unmet_defers(unmet) THEN pending \cup {notice} ELSE pending
         /\ log' = Invocation(this, event,
                        IF unmet_defers(unmet)
                        THEN <<"set_status", "defer">>
                        ELSE <<"set_status">>,
                        None, FALSE)
         /\ UNCHANGED <<files, plan, service, udm_relations>>
    ELSE \* _push_config, then _update_pebble_layer
         LET done == completed_calls
         IN
         /\ files' = IF "push" \in Range(done) THEN push_config_content ELSE files
         /\ plan' = IF "add_layer" \in Range(done) THEN TRUE ELSE plan
         /\ service' \in service_after(done)
         /\ IF done # supervisor_calls
            THEN \* the exception of the pebble call leaves the handler
                 /\ deferred' = deferred
                 /\ log' = Invocation(this, event, done, PebbleError, FALSE)
                 /\ UNCHANGED <<status, udm_relations>>
            ELSE IF ~is_leader
            THEN /\ deferred' = pending
                 /\ status' = ActiveStatus
                 /\ log' = Invocation(this, event, done \o <<"set_status">>,
                                      None, FALSE)
                 /\ UNCHANGED udm_relations
            ELSE IF "set_udm_information_for_all_relations" \notin FiveGUDMProvides
            THEN \* the attribute lookup on self.udm_provides raises
                 \* AttributeError, which leaves the handler
                 /\ deferred' = deferred
                 /\ log' = Invocation(this, event, done, AttributeError, FALSE)
                 /\ UNCHANGED <<status, udm_relations>>
            ELSE /\ deferred' = pending
                 /\ udm_relations' =
                        set_udm_information_for_all_relations(udm_information)
                 /\ status' = ActiveStatus
                 /\ log' = Invocation(this, event,
                        done \o <<"set_udm_information", "set_status">>,
                        None, TRUE)

(***************************************************************************)
(* _on_fiveg_udm_relation_joined                                           *)
(***************************************************************************)
\* Variant of _on_fiveg_udm_relation_joined without the leader check.
on_fiveg_udm_relation_joined_any_unit(event, notice, pending) ==
    IF ~udm_service_started
    THEN /\ deferred' = pending \cup {notice}
         /\ log' = Invocation("_on_fiveg_udm_relation_joined", event,
                              <<"defer">>, None, udm_service_started)
         /\ UNCHANGED <<status, files, plan, service, udm_relations>>
    ELSE IF set_udm_information_raises(event.relation_id)
    THEN /\ deferred' = deferred
         /\ log' = Invocation("_on_fiveg_udm_relation_joined", event,
                              << >>, "RuntimeError", udm_service_started)
         /\ UNCHANGED <<status, files, plan, service, udm_relations>>
    ELSE /\ udm_relations' = set_udm_information(udm_information, event.relation_id)
         /\ deferred' = pending
         /\ log' = Invocation("_on_fiveg_udm_relation_joined", event,
                              <<"set_udm_information">>, None, udm_service_started)
         /\ UNCHANGED <<status, files, plan, service>>

on_fiveg_udm_relation_joined(event, notice, pending) ==
    IF ~is_leader
    THEN /\ deferred' = pending
         /\ log' = Invocation("_on_fiveg_udm_relation_joined", event,
                              << >>, None, FALSE)
         /\ UNCHANGED <<status, files, plan, service, udm_relations>>
    ELSE IF ~udm_service_started
    THEN /\ deferred' = pending \cup {notice}
         /\ log' = Invocation("_on_fiveg_udm_relation_joined", event,
                              <<"defer">>, None, udm_service_started)
         /\ UNCHANGED <<status, files, plan, service, udm_relations>>
    ELSE IF set_udm_information_raises(event.relation_id)
    THEN /\ deferred' = deferred
         /\ log' = Invocation("_on_fiveg_udm_relation_joined", event,
                              << >>, "RuntimeError", udm_service_started)
         /\ UNCHANGED <<status, files, plan, service, udm_relations>>
    ELSE /\ udm_relations' = set_udm_information(udm_information, event.relation_id)
         /\ deferred' = pending
         /\ log' = Invocation("_on_fiveg_udm_relation_joined", event,
                              <<"set_udm_information">>, None, udm_service_started)
         /\ UNCHANGED <<status, files, plan, service>>

(***************************************************************************)
(* Event delivery (the observers registered in __init__).                  *)
(***************************************************************************)
handle(event, notice, pending) ==
    IF notice.observer = "_on_config_changed"
    THEN on_config_changed(event, notice, pending)
    ELSE IF notice.observer = "_on_fiveg_udm_relation_joined"
    THEN on_fiveg_udm_relation_joined(event, notice, pending)
    ELSE \* no observer is registered for the event: no handler runs
         /\ log' = Invocation("", event, << >>, None, FALSE)
         /\ UNCHANGED <<status, files, plan, service, udm_relations, deferred>>

\* The runtime emits a relation event only for a relation that exists.
CanEmit(event) ==
    CASE event.name = "config_changed" -> TRUE
      [] event.name = "fiveg_nrf_relation_changed" -> relations["nrf"].created
      [] event.name = "fiveg_udr_relation_changed" -> relations["udr"].created
      [] event.name = "fiveg_udm_relation_joined" ->
            udm_relations[event.relation_id].created
      [] event.name = "udm_pebble_ready" -> can_connect

Emit(event) ==
    /\ CanEmit(event)
    /\ handle(event, Notice(event), deferred)
    /\ UNCHANGED <<can_connect, is_leader, relations, failing>>

Redeliver(notice) ==
    /\ notice \in deferred
    /\ handle(Redelivered(notice), notice, deferred \ {notice})
    /\ UNCHANGED <<can_connect, is_leader, relations, failing>>

(***************************************************************************)
(* The environment: the workload container, leadership and the peers.      *)
(***************************************************************************)
SetCanConnect(val) ==
    /\ can_connect # val
    /\ can_connect' = val
    /\ log' = Idle
    /\ UNCHANGED <<is_leader, service, plan, files, relations, udm_relations,
                   status, deferred, failing>>

SetLeader(val) ==
    /\ is_leader # val
    /\ is_leader' = val
    /\ log' = Idle
    /\ UNCHANGED <<can_connect, service, plan, files, relations, udm_relations,
                   status, deferred, failing>>

ServiceStops ==
    /\ service = "active"
    /\ service' = "inactive"
    /\ log' = Idle
    /\ UNCHANGED <<can_connect, is_leader, plan, files, relations, udm_relations,
                   status, deferred, failing>>

NoRelation ==
    [ created |-> FALSE, app |-> FALSE, data |-> EmptyData, local |-> EmptyData ]

AddRelation(role) ==
    /\ ~relations[role].created
    /\ relations' = [ relations EXCEPT
                        ![role] = [ created |-> TRUE, app |-> TRUE,
                                    data |-> EmptyData,
                                    local |-> EmptyData ] ]
    /\ log' = Idle
    /\ UNCHANGED <<can_connect, is_leader, service, plan, files, udm_relations,
                   status, deferred, failing>>

RemoveRelation(role) ==
    /\ relations[role].created
    /\ relations' = [ relations EXCEPT ![role] = NoRelation ]
    /\ log' = Idle
    /\ UNCHANGED <<can_connect, is_leader, service, plan, files, udm_relations,
                   status, deferred, failing>>

\* The remote application publishes its endpoint: the four keys in one update,
\* as set_udm_information does on this side.
PublishEndpoint(role, address) ==
    /\ relations[role].created
    /\ relations[role].data # PeerData(role, Keys(role), address)
    /\ relations' = [ relations EXCEPT
                        ![role].data =
                            update(@, PeerData(role, Keys(role), address)) ]
    /\ log' = Idle
    /\ UNCHANGED <<can_connect, is_leader, service, plan, files, udm_relations,
                   status, deferred, failing>>

AddUdmRelation(relation_id) ==
    /\ ~udm_relations[relation_id].created
    /\ udm_relations' = [ udm_relations EXCEPT ![relation_id].created = TRUE ]
    /\ log' = Idle
    /\ UNCHANGED <<can_connect, is_leader, service, plan, files, relations,
                   status, deferred, failing>>

(***************************************************************************)
(* The specification: a freshly deployed unit, whose peers publish their   *)
(* endpoints whole.                                                        *)
(***************************************************************************)
Init ==
    /\ can_connect = FALSE
    /\ is_leader = FALSE
    /\ service = "absent"
    /\ plan = FALSE
    /\ files = NoFile
    /\ relations = [ role \in Roles |-> NoRelation ]
    /\ udm_relations = [ r \in UdmIds |-> [ created |-> FALSE, data |-> EmptyData, remote |-> EmptyData ] ]
    /\ status = UnknownStatus
    /\ deferred = {}
    /\ failing = "none"
    /\ log = Idle

Next ==
    \/ \E event \in ConfigChangedEvents \cup RelationJoinedEvents
                        \cup WorkloadReadyEvents : Emit(event)
    \/ \E notice \in Notices : Redeliver(notice)
    \/ \E val \in BOOLEAN : SetCanConnect(val)
    \/ \E val \in BOOLEAN : SetLeader(val)
    \/ ServiceStops
    \/ \E role \in Roles : AddRelation(role)
    \/ \E role \in Roles : RemoveRelation(role)
    \/ \E role \in Roles : \E address \in PeerAddresses(role) :
            PublishEndpoint(role, address)
    \/ \E relation_id \in UdmIds : AddUdmRelation(relation_id)

Spec == Init /\ [][Next]_vars

(***************************************************************************)
(* The specification of partial publication: the relation data the unit    *)
(* finds when it starts holds any subset of a peer's four keys (the order  *)
(* in which a peer populates its keys is unspecified), and the             *)
(* reconciliation triggers are delivered against it.                       *)
(***************************************************************************)
PartialRelations(role) ==
    { NoRelation,
      [ created |-> TRUE, app |-> FALSE, data |-> EmptyData, local |-> EmptyData ] }
    \cup { [ created |-> TRUE, app |-> TRUE,
             data |-> PeerData(role, present, address),
             local |-> EmptyData ] :
           present \in SUBSET Keys(role), address \in PeerAddresses(role) }

InitPartial ==
    /\ can_connect = FALSE
    /\ is_leader = FALSE
    /\ service = "absent"
    /\ plan = FALSE
    /\ files = NoFile
    /\ relations \in [ Roles -> UNION { PartialRelations(role) : role \in Roles } ]
    /\ \A role \in Roles : relations[role] \in PartialRelations(role)
    /\ udm_relations = [ r \in UdmIds |-> [ created |-> FALSE, data |-> EmptyData, remote |-> EmptyData ] ]
    /\ status = UnknownStatus
    /\ deferred = {}
    /\ failing = "none"
    /\ log = Idle

NextPartial ==
    \/ \E event \in ConfigChangedEvents : Emit(event)
    \/ \E notice \in Notices : Redeliver(notice)
    \/ \E val \in BOOLEAN : SetCanConnect(val)
    \/ \E val \in BOOLEAN : SetLeader(val)
    \/ ServiceStops

SpecPartial == InitPartial /\ [][NextPartial]_vars

(***************************************************************************)
(* Properties.  In a state whose log names a handler, the environment      *)
(* (container, leadership, peers' relation data) is as that invocation     *)
(* found it: every environment step resets the log.                        *)
(***************************************************************************)
Called(call) == call \in Range(log.calls)

Reconciled == log.handler = "_on_config_changed"

Joined == log.handler = "_on_fiveg_udm_relation_joined"

\* The peer has published its whole endpoint.
Published(role) ==
    /\ relations[role].created
    /\ relations[role].app
    /\ DOMAIN relations[role].data = Keys(role)

\* The peer's block of the config file, as its relation data gives it.
PeerBlock(role) ==
    LET data == relations[role].data
    IN  [ IPV4_ADDRESS |-> "\"" \o data[Key(role, "ipv4_address")] \o "\"",
          PORT         |-> data[Key(role, "port")],
          API_VERSION  |-> "\"" \o data[Key(role, "api_version")] \o "\"",
          FQDN         |-> "\"" \o data[Key(role, "fqdn")] \o "\"" ]

\* The endpoint the unit advertises, as the unit test reads it.
AdvertisedEndpoint ==
    [ udm_ipv4_address |-> "127.0.0.1",
      udm_fqdn         |-> "oai-5g-udm.whatever.svc.cluster.local",
      udm_port         |-> "80",
      udm_api_version  |-> "v1" ]

\* C1: when the container is connectable and both the fiveg-nrf and the
\* fiveg-udr peers have published their endpoint, a reconciliation pushes a
\* config file with exactly the peers' values, applies the layer, restarts the
\* service and ends with status Active.
C1_ConvergedReconcileEndsActive ==
    (Reconciled /\ can_connect /\ Published("nrf") /\ Published("udr")) =>
        /\ Called("push") /\ Called("add_layer") /\ Called("restart")
        /\ files # NoFile
        /\ files.NRF = PeerBlock("nrf")
        /\ files.UDR = PeerBlock("udr")
        /\ status = ActiveStatus

\* C2: a fiveg-udm relation-joined event handled by the leader while the udm
\* service runs writes the four udm_ keys to that relation instance, to no
\* other, in the same invocation, and does not defer the event.
C2_JoinedLeaderStartedPublishes ==
    [][ ( /\ log'.handler = "_on_fiveg_udm_relation_joined"
          /\ is_leader
          /\ can_connect /\ service = "active" )
        => LET r == log'.event.relation_id
           IN  /\ udm_relations'[r].data = AdvertisedEndpoint
               /\ \A o \in UdmIds \ {r} : udm_relations'[o] = udm_relations[o]
               /\ "defer" \notin Range(log'.calls)
               /\ deferred' \subseteq deferred
               /\ log'.raised = None ]_vars

C2_Witness ==
    /\ Joined /\ is_leader /\ log.started
    /\ Called("set_udm_information")
    /\ udm_relations[log.event.relation_id].data = AdvertisedEndpoint

\* C3: a fiveg-udm relation-joined event handled by the leader while the udm
\* service is not confirmed running (container not connectable, service
\* unknown to pebble, or service not running) is deferred, and no fiveg-udm
\* relation data is written.
C3_JoinedLeaderNotStartedDefers ==
    [][ ( /\ log'.handler = "_on_fiveg_udm_relation_joined"
          /\ is_leader
          /\ (~can_connect \/ service = "absent" \/ service = "inactive") )
        => /\ "defer" \in Range(log'.calls)
           /\ [ observer |-> "_on_fiveg_udm_relation_joined",
                relation_id |-> log'.event.relation_id ] \in deferred'
           /\ udm_relations' = udm_relations ]_vars

C3_Witness ==
    /\ Joined /\ is_leader /\ Called("defer")
    /\ ~can_connect /\ service = "active"
    /\ udm_relations[log.event.relation_id].data = EmptyData

\* C4: a reconciliation that finds the container not connectable sets status
\* Waiting, defers the event, and pushes nothing, updates no layer, restarts
\* nothing and writes no relation data, whatever the relations and leadership.
C4_UnreachableReconcileOnlyDefers ==
    [][ (log'.handler = "_on_config_changed" /\ ~can_connect)
        => /\ status' = [ name |-> "waiting",
                          message |-> "Waiting for Pebble in workload container" ]
           /\ log'.calls = <<"set_status", "defer">>
           /\ [ observer |-> "_on_config_changed", relation_id |-> 0 ] \in deferred'
           /\ files' = files /\ plan' = plan /\ service' = service
           /\ udm_relations' = udm_relations /\ relations' = relations ]_vars

C4_Witness ==
    /\ Reconciled /\ ~can_connect /\ is_leader
    /\ Published("nrf") /\ Published("udr")
    /\ status.name = "waiting" /\ Called("defer")

\* The status a reconciliation reports, by the first unmet precondition in the
\* order container, NRF relation, UDR relation, NRF endpoint, UDR endpoint.
ExpectedStatus(connectable, nrf_exists, udr_exists, nrf_available, udr_available) ==
    CASE ~connectable ->
            [ name |-> "waiting", message |-> "Waiting for Pebble in workload container" ]
      [] connectable /\ ~nrf_exists ->
            [ name |-> "blocked", message |-> "Waiting for relation to NRF to be created" ]
      [] connectable /\ nrf_exists /\ ~udr_exists ->
            [ name |-> "blocked", message |-> "Waiting for relation to UDR to be created" ]
      [] connectable /\ nrf_exists /\ udr_exists /\ ~nrf_available ->
            [ name |-> "waiting",
              message |-> "Waiting for NRF IPv4 address to be available in relation data" ]
      [] connectable /\ nrf_exists /\ udr_exists /\ nrf_available /\ ~udr_available ->
            [ name |-> "waiting",
              message |-> "Waiting for UDR IPv4 address to be available" ]
      [] OTHER -> [ name |-> "active", message |-> "" ]

AddressPresent(role) ==
    /\ relations[role].created
    /\ Key(role, "ipv4_address") \in DOMAIN relations[role].data

\* C5: the status a reconciliation reports is a function of (container
\* connectable, NRF relation exists, UDR relation exists, NRF endpoint
\* available, UDR endpoint available) that names the first unmet precondition,
\* NRF before UDR: with neither relation the Blocked reason names NRF.  Every
\* reconciliation with an unmet precondition reports a status.
C5_StatusIsFirstUnmetPrecondition ==
    Reconciled =>
        /\ log.raised = None =>
              /\ Called("set_status")
              /\ status = ExpectedStatus(can_connect,
                                         relations["nrf"].created,
                                         relations["udr"].created,
                                         AddressPresent("nrf"),
                                         AddressPresent("udr"))
        /\ log.raised # None =>
              /\ can_connect
              /\ AddressPresent("nrf") /\ AddressPresent("udr")
        /\ (can_connect /\ ~relations["nrf"].created /\ ~relations["udr"].created) =>
              /\ status.name = "blocked"
              /\ status.message = "Waiting for relation to NRF to be created"

C5_Witness ==
    /\ Reconciled /\ can_connect
    /\ ~relations["nrf"].created /\ ~relations["udr"].created
    /\ status = [ name |-> "blocked",
                  message |-> "Waiting for relation to NRF to be created" ]

\* C6: if the NRF or the UDR peer has published a strict subset of its four
\* keys, a reconciliation (container connectable, both relations created) ends
\* in Waiting, pushes no config and restarts no service.
C6_PartialEndpointIsUnavailable ==
    ( /\ Reconciled /\ can_connect
      /\ relations["nrf"].created /\ relations["udr"].created
      /\ \E role \in Roles : DOMAIN relations[role].data # Keys(role) )
    => /\ status.name = "waiting"
       /\ ~Called("push")
       /\ ~Called("restart")

\* C7: a reconciliation of the leader that reaches the converged branch writes
\* the four udm_ keys to every joined fiveg-udm relation instance and ends
\* with status Active.
C7_LeaderRepublishesToAllRelations ==
    ( /\ Reconciled /\ is_leader /\ can_connect
      /\ AddressPresent("nrf") /\ AddressPresent("udr") )
    => /\ \A r \in UdmIds :
            udm_relations[r].created => udm_relations[r].data = AdvertisedEndpoint
       /\ log.raised = None
       /\ status = ActiveStatus

\* C8: a reconciliation that follows a reconciliation, the environment
\* unchanged in between, leaves the pushed config, the published fiveg-udm
\* relation data and the unit status as the first left them.
C8_ReconcileIdempotent ==
    [][ ( /\ log.handler = "_on_config_changed"
          /\ log'.handler = "_on_config_changed" )
        => /\ files' = files
           /\ udm_relations' = udm_relations
           /\ status' = status ]_vars

C8_Witness ==
    /\ Reconciled /\ log.after = "_on_config_changed"
    /\ Called("push") /\ status = ActiveStatus

\* C9 as stated: an event is deferred only when the container is not
\* connectable.
C9_DeferOnlyWhenUnreachable ==
    Called("defer") => ~can_connect

\* C9 amended: an event is deferred only when the container is not
\* connectable, or by the leader's fiveg-udm relation-joined handler when the
\* udm service is not confirmed running; a missing relation, an unavailable
\* peer or a non-leader unit never defers.
C9_DeferOnlyWhenUnreachableOrNotStarted ==
    Called("defer") =>
        \/ ~can_connect
        \/ Joined /\ is_leader /\ service # "active"

C9_Witness ==
    /\ Joined /\ Called("defer") /\ can_connect /\ is_leader
    /\ service = "inactive"

\* C10: every write of the advertised endpoint to a fiveg-udm relation is made
\* by a handler of the leader while the udm service is running.
C10_PublishOnlyWhenLeaderAndServing ==
    [][ ( \/ \E r \in UdmIds : udm_relations'[r].data # udm_relations[r].data
          \/ "set_udm_information" \in Range(log'.calls) )
        => /\ is_leader
           /\ can_connect
           /\ service' = "active"
           /\ log'.started ]_vars

C10_Witness ==
    /\ Called("set_udm_information") /\ is_leader /\ log.started
    /\ service = "active"
    /\ \E r \in UdmIds : udm_relations[r].data = AdvertisedEndpoint

(***************************************************************************)
(* The specification of the provider interface: set_udm_information is     *)
(* called with any relation id and any endpoint while fiveg-udm relations  *)
(* come and go.                                                            *)
(***************************************************************************)
MaxProvidesRelations == 3

ProvidesIds == 1 .. MaxProvidesRelations

\* The endpoints a caller may pass: the charm's, and one on another port.
Informations ==
    { udm_information, [ udm_information EXCEPT !["udm_port"] = "8080" ] }

\* The record of one call of a library method.
Call(method, relation_id, information, calls, raised) ==
    [ handler |-> method, event |-> Event("", relation_id), calls |-> calls,
      raised |-> raised, started |-> FALSE, after |-> log.handler,
      information |-> information ]

CallSetUdmInformation(information, relation_id) ==
    /\ IF set_udm_information_raises(relation_id)
       THEN /\ log' = Call("set_udm_information", relation_id, information,
                           << >>, "RuntimeError")
            /\ UNCHANGED udm_relations
       ELSE /\ udm_relations' = set_udm_information(information, relation_id)
            /\ log' = Call("set_udm_information", relation_id, information,
                           <<"update">>, None)
    /\ UNCHANGED <<can_connect, is_leader, service, plan, files, relations,
                   status, deferred, failing>>

RemoveUdmRelation(relation_id) ==
    /\ udm_relations[relation_id].created
    /\ udm_relations' = [ udm_relations EXCEPT
                            ![relation_id] = [ created |-> FALSE,
                                               data |-> EmptyData,
                                               remote |-> EmptyData ] ]
    /\ log' = Idle
    /\ UNCHANGED <<can_connect, is_leader, service, plan, files, relations,
                   status, deferred, failing>>

InitProvides ==
    /\ can_connect = FALSE
    /\ is_leader = FALSE
    /\ service = "absent"
    /\ plan = FALSE
    /\ files = NoFile
    /\ relations = [ role \in Roles |-> NoRelation ]
    /\ udm_relations =
            [ r \in ProvidesIds |-> [ created |-> FALSE, data |-> EmptyData, remote |-> EmptyData ] ]
    /\ status = UnknownStatus
    /\ deferred = {}
    /\ failing = "none"
    /\ log = Idle

NextProvides ==
    \/ \E relation_id \in ProvidesIds : AddUdmRelation(relation_id)
    \/ \E relation_id \in ProvidesIds : RemoveUdmRelation(relation_id)
    \/ \E information \in Informations : \E relation_id \in ProvidesIds :
            CallSetUdmInformation(information, relation_id)

SpecProvides == InitProvides /\ [][NextProvides]_vars

\* C11: set_udm_information called with a relation id for which no fiveg-udm
\* relation exists raises and writes nothing; called with the id of an
\* existing relation it writes the four udm_ keys, as given, in one update to
\* that relation instance and to no other.
C11_SetUdmInformationRaisesOrWritesAll ==
    [][ log'.handler = "set_udm_information"
        => LET r == log'.event.relation_id
           IN  IF ~udm_relations[r].created
               THEN /\ log'.raised = "RuntimeError"
                    /\ udm_relations' = udm_relations
               ELSE /\ log'.raised = None
                    /\ DOMAIN udm_relations'[r].data = Keys("udm")
                    /\ \A k \in Keys("udm") :
                            udm_relations'[r].data[k] = log'.information[k]
                    /\ \A o \in ProvidesIds \ {r} :
                            udm_relations'[o] = udm_relations[o] ]_vars

C11_Witness ==
    /\ log.handler = "set_udm_information"
    /\ log.raised = "RuntimeError"
    /\ ~udm_relations[log.event.relation_id].created
    /\ udm_relations[log.event.relation_id].data = EmptyData
    /\ \E o \in ProvidesIds : udm_relations[o].data = AdvertisedEndpoint

(***************************************************************************)
(* The specification of the requirer interface (FiveGUDMRequires): a       *)
(* consumer of the fiveg-udm relation reads the properties and receives    *)
(* relation-changed events while the remote application writes and deletes *)
(* its keys one at a time.                                                 *)
(***************************************************************************)
RequirerRoles == {"udm"}

\* The properties of FiveGUDMRequires: udm_<field> and udm_<field>_available.
Accessors == Keys("udm")

Predicates == { key \o "_available" : key \in Keys("udm") }

\* str(bool)
Bool(b) == IF b THEN "True" ELSE "False"

\* The record of one read of a property: what it returned, or raised.
Returned(property, raised, result) ==
    [ handler |-> property, event |-> Event("", NoRelationId), calls |-> << >>,
      raised |-> raised, started |-> FALSE, after |-> log.handler,
      result |-> result ]

ReadProperty(key, predicate) ==
    LET relation == relations["udm"]
        property == IF predicate THEN key \o "_available" ELSE key
    IN
    /\ log' = IF relation_value(relation, key) = AttributeError
              THEN Returned(property, AttributeError, None)
              ELSE IF predicate
              THEN Returned(property, None,
                            Bool(relation_value_available(relation, key)))
              ELSE Returned(property, None, relation_value(relation, key))
    /\ UNCHANGED <<can_connect, is_leader, service, plan, files, relations,
                   udm_relations, status, deferred, failing>>

\* Variant of UDMAvailableEvent with the port and the API version exchanged.
UDMAvailableEvent_swapped(data) ==
    [ udm_ipv4_address |-> data["udm_ipv4_address"],
      udm_fqdn         |-> data["udm_fqdn"],
      udm_port         |-> data["udm_api_version"],
      udm_api_version  |-> data["udm_port"] ]

\* The udm_available event emitted for the remote application data `data`.
UDMAvailableEvent(data) ==
    [ udm_ipv4_address |-> data["udm_ipv4_address"],
      udm_fqdn         |-> data["udm_fqdn"],
      udm_port         |-> data["udm_port"],
      udm_api_version  |-> data["udm_api_version"] ]

\* _on_relation_changed returns before the emit at the first of these that
\* fails.
udm_available_emitted(relation) ==
    IF ~relation.app
    THEN FALSE
    ELSE IF "udm_ipv4_address" \notin DOMAIN relation.data
    THEN FALSE
    ELSE IF "udm_fqdn" \notin DOMAIN relation.data
    THEN FALSE
    ELSE IF "udm_port" \notin DOMAIN relation.data
    THEN FALSE
    ELSE IF "udm_api_version" \notin DOMAIN relation.data
    THEN FALSE
    ELSE TRUE

\* FiveGUDMRequires._on_relation_changed; `emitted` holds the event it emits.
on_relation_changed ==
    LET relation == relations["udm"]
        record == [ handler |-> "_on_relation_changed",
                    event |-> Event("fiveg_udm_relation_changed", NoRelationId),
                    raised |-> None, started |-> FALSE, after |-> log.handler ]
    IN
    /\ relation.created
    /\ log' = IF udm_available_emitted(relation)
              THEN record @@ [ calls |-> <<"udm_available.emit">>,
                               emitted |-> { UDMAvailableEvent(relation.data) } ]
              ELSE record @@ [ calls |-> << >>, emitted |-> {} ]
    /\ UNCHANGED <<can_connect, is_leader, service, plan, files, relations,
                   udm_relations, status, deferred, failing>>

\* The remote application writes one key of its relation data.
UpdateRelationData(role, key, value) ==
    /\ relations[role].created
    /\ relations[role].app
    /\ relations' = [ relations EXCEPT
                        ![role].data = update(@, [ k \in {key} |-> value ]) ]
    /\ relations' # relations
    /\ log' = Idle
    /\ UNCHANGED <<can_connect, is_leader, service, plan, files, udm_relations,
                   status, deferred, failing>>

\* The remote application deletes one key of its relation data.
DeleteRelationData(role, key) ==
    /\ key \in DOMAIN relations[role].data
    /\ relations' = [ relations EXCEPT
                        ![role].data = [ k \in DOMAIN @ \ {key} |-> @[k] ] ]
    /\ log' = Idle
    /\ UNCHANGED <<can_connect, is_leader, service, plan, files, udm_relations,
                   status, deferred, failing>>

InitRequires ==
    /\ can_connect = FALSE
    /\ is_leader = FALSE
    /\ service = "absent"
    /\ plan = FALSE
    /\ files = NoFile
    /\ relations \in [ RequirerRoles -> PartialRelations("udm") ]
    /\ udm_relations = [ r \in UdmIds |-> [ created |-> FALSE, data |-> EmptyData, remote |-> EmptyData ] ]
    /\ status = UnknownStatus
    /\ deferred = {}
    /\ failing = "none"
    /\ log = Idle

NextRequires ==
    \/ \E key \in Keys("udm") : \E predicate \in BOOLEAN :
            ReadProperty(key, predicate)
    \/ on_relation_changed
    \/ \E role \in RequirerRoles : AddRelation(role)
    \/ \E role \in RequirerRoles : RemoveRelation(role)
    \/ \E role \in RequirerRoles : \E key \in Keys(role) :
            \E value \in (IF key = Key(role, "ipv4_address")
                          THEN PeerAddresses(role) ELSE {PeerValue(key)}) :
                UpdateRelationData(role, key, value)
    \/ \E role \in RequirerRoles : \E key \in Keys(role) :
            DeleteRelationData(role, key)

SpecRequires == InitRequires /\ [][NextRequires]_vars

\* C12: the properties of the requirer interface (udm_<field> and
\* udm_<field>_available) never raise; when the relation does not exist, when
\* it has no remote application, or when the remote application has published
\* nothing, they return None (False for a predicate).
C12_RequirerPropertiesNeverRaise ==
    log.handler \in Accessors \cup Predicates =>
        /\ log.raised = None
        /\ ( \/ ~relations["udm"].created
             \/ ~relations["udm"].app
             \/ relations["udm"].data = EmptyData )
           => log.result = (IF log.handler \in Predicates THEN "False" ELSE None)

\* The events the reconciliation is to run on.
ReconcileTriggers ==
    { "config_changed", "fiveg_nrf_relation_changed",
      "fiveg_udr_relation_changed", "udm_pebble_ready" }

\* C13: the delivery of each of config-changed, fiveg-nrf relation-changed,
\* fiveg-udr relation-changed and pebble-ready runs the reconciliation, and the
\* status it reports is that of the inputs as they are at that delivery; so a
\* pebble-ready event delivered once the container is connectable re-evaluates
\* the status.
C13_EveryTriggerReconcilesAfresh ==
    log.event.name \in ReconcileTriggers =>
        /\ Reconciled
        /\ log.raised = None =>
              status = ExpectedStatus(can_connect,
                                      relations["nrf"].created,
                                      relations["udr"].created,
                                      AddressPresent("nrf"),
                                      AddressPresent("udr"))

\* C14: a reconciliation that finds the container connectable and the
\* fiveg-nrf or the fiveg-udr relation not created sets status Blocked with a
\* message naming the missing relation (NRF first), does not defer the event,
\* and pushes no config, changes no layer, restarts nothing and publishes
\* nothing.
C14_MissingRelationBlocksWithoutDefer ==
    [][ ( /\ log'.handler = "_on_config_changed"
          /\ can_connect
          /\ (~relations["nrf"].created \/ ~relations["udr"].created) )
        => /\ status'.name = "blocked"
           /\ status'.message =
                 (IF ~relations["nrf"].created
                  THEN "Waiting for relation to NRF to be created"
                  ELSE "Waiting for relation to UDR to be created")
           /\ log'.calls = <<"set_status">>
           /\ log'.raised = None
           /\ deferred' \subseteq deferred
           /\ files' = files /\ plan' = plan /\ service' = service
           /\ udm_relations' = udm_relations ]_vars

C14_Witness ==
    /\ Reconciled /\ can_connect /\ is_leader
    /\ relations["nrf"].created /\ ~relations["udr"].created
    /\ status = [ name |-> "blocked",
                  message |-> "Waiting for relation to UDR to be created" ]
    /\ ~Called("defer") /\ ~Called("push")

\* C15: a reconciliation that finds the container connectable, both relations
\* created and a peer that has not published its endpoint sets status Waiting
\* with a message naming that peer (NRF before UDR), does not defer the event,
\* and pushes no config, changes no layer, restarts nothing and publishes
\* nothing.
C15_UnpublishedPeerWaitsWithoutDefer ==
    [][ ( /\ log'.handler = "_on_config_changed"
          /\ can_connect
          /\ relations["nrf"].created /\ relations["udr"].created
          /\ (~Published("nrf") \/ ~Published("udr")) )
        => /\ status'.name = "waiting"
           /\ status'.message =
                 (IF ~Published("nrf")
                  THEN "Waiting for NRF IPv4 address to be available in relation data"
                  ELSE "Waiting for UDR IPv4 address to be available")
           /\ log'.calls = <<"set_status">>
           /\ log'.raised = None
           /\ deferred' \subseteq deferred
           /\ files' = files /\ plan' = plan /\ service' = service
           /\ udm_relations' = udm_relations ]_vars

C15_Witness ==
    /\ Reconciled /\ can_connect /\ is_leader
    /\ Published("nrf")
    /\ relations["udr"].created /\ ~Published("udr")
    /\ status = [ name |-> "waiting",
                  message |-> "Waiting for UDR IPv4 address to be available" ]
    /\ ~Called("defer") /\ ~Called("push")

\* C16: no handler run by a unit that is not the leader writes fiveg-udm
\* relation data; its fiveg-udm relation-joined handler returns at once, with
\* no defer, no look at the workload and no change to it; its reconciliation,
\* when every precondition is met and pebble does not fail, still pushes the
\* config, restarts the service and sets status Active.
C16_NonLeaderNeverPublishes ==
    [][ (~is_leader /\ log'.handler # "")
        => /\ udm_relations' = udm_relations
           /\ "set_udm_information" \notin Range(log'.calls)
           /\ log'.handler = "_on_fiveg_udm_relation_joined"
              => /\ log'.calls = << >>
                 /\ log'.raised = None
                 /\ ~log'.started
                 /\ deferred' \subseteq deferred
                 /\ files' = files /\ plan' = plan /\ service' = service
                 /\ status' = status
           /\ ( /\ log'.handler = "_on_config_changed"
                /\ can_connect /\ failing = "none"
                /\ AddressPresent("nrf") /\ AddressPresent("udr") )
              => /\ log'.calls = <<"push", "add_layer", "replan", "restart",
                                   "set_status">>
                 /\ files' = push_config_content
                 /\ service' = "active"
                 /\ status' = ActiveStatus ]_vars

C16_Witness ==
    /\ Joined /\ ~is_leader
    /\ can_connect /\ service = "active" /\ status = ActiveStatus
    /\ log.calls = << >>
    /\ udm_relations[log.event.relation_id].created
    /\ udm_relations[log.event.relation_id].data = EmptyData

\* C17: a reconciliation that meets every precondition pushes the config, then
\* adds the layer and replans, then restarts the service, then (on the leader)
\* publishes its endpoint to the fiveg-udm relations, then sets status Active:
\* no restart without a push before it in the invocation, and Active not
\* before the restart.
C17_ConvergedEffectsInOrder ==
    ( /\ Reconciled /\ can_connect /\ failing = "none"
      /\ AddressPresent("nrf") /\ AddressPresent("udr") )
    => /\ log.calls =
            (IF is_leader
             THEN <<"push", "add_layer", "replan", "restart",
                    "set_udm_information", "set_status">>
             ELSE <<"push", "add_layer", "replan", "restart", "set_status">>)
       /\ status = ActiveStatus

\* C18: the redelivery of a reconciliation that was deferred because the
\* container was not connectable, made when the container is connectable and
\* both peers have published their endpoint, pushes the config, restarts the
\* service, sets status Active and leaves the event no longer deferred.
C18_RedeliveredReconcileConverges ==
    ( /\ Reconciled /\ log.event.name = "(deferred)"
      /\ can_connect /\ failing = "none"
      /\ Published("nrf") /\ Published("udr") )
    => /\ Called("push") /\ Called("restart")
       /\ files = push_config_content
       /\ service = "active"
       /\ status = ActiveStatus
       /\ [ observer |-> "_on_config_changed", relation_id |-> 0 ] \notin deferred

(***************************************************************************)
(* The specification of pebble failures: as Spec for the reconciliation,   *)
(* and a pebble call of the reconciliation may fail when it is made.       *)
(***************************************************************************)
SupervisorFails(call) ==
    /\ failing # call
    /\ failing' = call
    /\ log' = Idle
    /\ UNCHANGED <<can_connect, is_leader, service, plan, files, relations,
                   udm_relations, status, deferred>>

NextFailure ==
    \/ \E event \in ConfigChangedEvents : Emit(event)
    \/ \E notice \in Notices : Redeliver(notice)
    \/ \E val \in BOOLEAN : SetCanConnect(val)
    \/ \E val \in BOOLEAN : SetLeader(val)
    \/ \E role \in Roles : AddRelation(role)
    \/ \E role \in Roles : \E address \in PeerAddresses(role) :
            PublishEndpoint(role, address)
    \/ \E call \in {"none"} \cup Range(supervisor_calls) : SupervisorFails(call)

SpecFailure == Init /\ [][NextFailure]_vars

\* The calls a reconciliation has made when the pebble call `call` raises.
CallsBefore(call) ==
    CASE call = "push"      -> << >>
      [] call = "add_layer" -> <<"push">>
      [] call = "replan"    -> <<"push", "add_layer">>
      [] call = "restart"   -> <<"push", "add_layer", "replan">>

\* C19: when a pebble call of a reconciliation (push, add_layer, replan or
\* restart) fails, the exception leaves the handler: the calls after it are
\* not made, no fiveg-udm relation data is written and the status is not set
\* in that invocation.
C19_SupervisorFailurePropagates ==
    [][ ( /\ log'.handler = "_on_config_changed"
          /\ can_connect
          /\ AddressPresent("nrf") /\ AddressPresent("udr")
          /\ failing # "none" )
        => /\ log'.raised = PebbleError
           /\ log'.calls = CallsBefore(failing)
           /\ status' = status
           /\ udm_relations' = udm_relations
           /\ failing = "push" => files' = files
           /\ failing \in {"push", "add_layer"} => plan' = plan
           /\ failing # "restart" => service' = service ]_vars

C19_Witness ==
    /\ Reconciled /\ log.raised = PebbleError
    /\ failing = "restart" /\ is_leader
    /\ log.calls = <<"push", "add_layer", "replan">>
    /\ files = push_config_content
    /\ status # ActiveStatus

\* C20: a relation-changed event of the consumer's fiveg-udm relation emits
\* udm_available exactly when the relation has a remote application whose data
\* holds the four udm_ keys, and the event carries those four values; with a
\* key missing (or no remote application) nothing is emitted.
C20_UdmAvailableIffAllFourKeys ==
    log.handler = "_on_relation_changed" =>
        LET relation == relations["udm"]
            complete == /\ relation.app
                        /\ Keys("udm") \subseteq DOMAIN relation.data
        IN  /\ complete =>
                /\ log.calls = <<"udm_available.emit">>
                /\ log.emitted = { [ k \in Keys("udm") |-> relation.data[k] ] }
            /\ ~complete =>
                /\ log.calls = << >>
                /\ log.emitted = {}
            /\ log.raised = None

C20_Witness ==
    /\ log.handler = "_on_relation_changed"
    /\ log.calls = <<"udm_available.emit">>
    /\ log.emitted = { [ udm_ipv4_address |-> "127.0.0.2",
                         udm_fqdn |-> "oai-5g-udm.whatever.svc.cluster.local",
                         udm_port |-> "80",
                         udm_api_version |-> "v1" ] }
    /\ log.after = "_on_relation_changed"

\* The handler invocation of the step stopped early: it deferred the event or
\* returned after setting Waiting or Blocked.
StoppedEarly ==
    \/ "defer" \in Range(log'.calls)
    \/ /\ "set_status" \in Range(log'.calls)
       /\ status'.name \in {"waiting", "blocked"}

\* C21: no handler changes the fiveg-nrf or fiveg-udr relations (either side)
\* or the consumer's side of a fiveg-udm relation, nor creates or removes a
\* relation: the only relation data a handler changes is this application's
\* side of fiveg-udm relation instances.  A handler that stops early (Waiting,
\* Blocked, deferred) changes no relation data and nothing in the workload
\* container.
C21_HandlersWriteOnlyOwnSide ==
    [][ log'.handler # ""
        => /\ relations' = relations
           /\ \A r \in UdmIds :
                /\ udm_relations'[r].remote = udm_relations[r].remote
                /\ udm_relations'[r].created = udm_relations[r].created
           /\ StoppedEarly
              => /\ udm_relations' = udm_relations
                 /\ files' = files /\ plan' = plan /\ service' = service ]_vars

C21_Witness ==
    /\ Joined /\ Called("set_udm_information")
    /\ udm_relations[log.event.relation_id].data = AdvertisedEndpoint
    /\ udm_relations[log.event.relation_id].remote = EmptyData
    /\ Published("nrf") /\ Published("udr")
    /\ status.name = "waiting"
    /\ [ observer |-> "_on_config_changed", relation_id |-> 0 ] \in deferred

\* C22: status Active is set only by a reconciliation that found the container
\* connectable, both the fiveg-nrf and the fiveg-udr relation created and both
\* peer addresses present, and that pushed the config and restarted the service
\* before it, in the same invocation; no step other than a reconciliation (the
\* fiveg-udm relation-joined handler included) changes the unit status.
C22_ActiveOnlyFromConvergedReconcile ==
    [][ /\ ( /\ status' = ActiveStatus
             /\ (status # ActiveStatus \/ "set_status" \in Range(log'.calls)) )
           => /\ log'.handler = "_on_config_changed"
              /\ can_connect
              /\ relations["nrf"].created /\ relations["udr"].created
              /\ AddressPresent("nrf") /\ AddressPresent("udr")
              /\ \E i, j, k \in DOMAIN log'.calls :
                    /\ i < j /\ j < k
                    /\ log'.calls[i] = "push"
                    /\ log'.calls[j] = "restart"
                    /\ log'.calls[k] = "set_status"
              /\ files' = push_config_content
              /\ service' = "active"
        /\ log'.handler # "_on_config_changed"
           => /\ status' = status
              /\ "set_status" \notin Range(log'.calls) ]_vars

C22_Witness ==
    /\ Reconciled /\ log.after = "_on_fiveg_udm_relation_joined"
    /\ log.calls = <<"push", "add_layer", "replan", "restart", "set_status">>
    /\ status = ActiveStatus
    /\ can_connect
    /\ AddressPresent("nrf") /\ AddressPresent("udr")
    /\ files = push_config_content /\ service = "active"

====
